---- MODULE Spec2Model ----
(***************************************************************************)
(* A model of minibox: MiniBox<T> / MiniPtr<T>, a single-owner container   *)
(* that stores its value in the pointer-sized slot itself when the value   *)
(* is no larger and no more aligned than a pointer, on the heap otherwise, *)
(* and nowhere when the value is zero-sized.                               *)
(*                                                                         *)
(* Memory is modelled at the level the code works at: the slot is a word   *)
(* of PtrSize bytes (each byte a number, or Uninit), heap cells are owned  *)
(* by the global allocator, container handles live at stack locations.     *)
(***************************************************************************)
EXTENDS Integers, Sequences, FiniteSets, TLC

VARIABLES
    T,        \* the type parameter of MiniBox<T>: [size, align, elems]
    bx,       \* the caller's handles: container, decomposed MiniPtr, extracted value
    heap,     \* the global allocator's cells, by address
    counter,  \* the drop counters the destructors of the values increment
    made,     \* how many values were constructed per drop counter
    last,     \* the operation executed last and its outcome
    events,   \* allocator calls and destructor runs of the last operation, in order
    fault,    \* the first misuse of memory, if any ("none" otherwise)
    halted,   \* the process was aborted by handle_alloc_error
    arg,      \* the input of the function under check (SizeClass::new, from_raw)
    cls       \* its results

vars == <<T, bx, heap, counter, made, last, events, fault, halted, arg, cls>>

----------------------------------------------------------------------------
(* Bounds of the model *)

MaxSize == 16       \* type sizes 0..MaxSize given to SizeClass::new
MaxAlignExp == 4    \* type alignments 2^0..2^MaxAlignExp given to SizeClass::new
MaxBoxes == 2       \* handles the caller works with
MaxFill == 2        \* distinct values of T
MaxHeap == 2        \* heap cells the allocator can hand out at one time

(* The target: mem::size_of::<*mut ()>() and mem::align_of::<*mut ()>() *)
PtrSize == 8
PtrAlign == 8

----------------------------------------------------------------------------
(* SizeClass *)

Zero == "Zero"
Inline == "Inline"
Boxed == "Boxed"

B2U(b) == IF b THEN 1 ELSE 0

SizeClassTable ==
    << <<Zero, Zero>>,
       <<Inline, Boxed>>,
       <<Boxed, Boxed>> >>

\* a plausible slip in the table: the over-aligned small entry marked Inline
SizeClassNew_OverAlignedInline(size, align, size_ptr, align_ptr) ==
    (<< <<Zero, Zero>>, <<Inline, Boxed>>, <<Inline, Boxed>> >>)
        [B2U(size # 0) * (B2U(align > align_ptr) + 1) + 1][B2U(size > size_ptr) + 1]

\* SizeClass::new, the two-level table of the build without "nightly"
SizeClassNew(size, align, size_ptr, align_ptr) ==
    SizeClassTable[B2U(size # 0) * (B2U(align > align_ptr) + 1) + 1]
                  [B2U(size > size_ptr) + 1]

\* SizeClass::new, the if/else chain of the "nightly" build
SizeClassNewNightly(size, align, size_ptr, align_ptr) ==
    IF size = 0 THEN Zero
    ELSE IF size <= size_ptr /\ align <= align_ptr THEN Inline
    ELSE Boxed

Pow2(k) == 2 ^ k

\* pointer size and alignment of targets: 64 bit, 32 bit, m68k, avr
Targets == { <<8, 8>>, <<4, 4>>, <<4, 2>>, <<2, 1>> }

\* layouts a type can have: the alignment is a power of two and divides the size
Layouts ==
    { l \in [size : 0..MaxSize, align : { Pow2(k) : k \in 0..MaxAlignExp }] :
        l.size % l.align = 0 }

ClassInputs == [layout : Layouts, target : Targets]

NoArg == [layout |-> [size |-> 0, align |-> 1], target |-> <<PtrSize, PtrAlign>>]
NoCls == [table |-> "none", nightly |-> "none"]

----------------------------------------------------------------------------
(* Types, values and memory *)

\* the types the crate's tests and docs instantiate MiniBox with (64 bit
\* target): size, alignment, and how many destructors its drop glue runs
TypeCatalog ==
    { [size |-> 0,   align |-> 1,  elems |-> 0],    \* ()
      [size |-> 0,   align |-> 64, elems |-> 0],    \* OverAlignedZeroSized
      [size |-> 0,   align |-> 1,  elems |-> 1],    \* StaticDropCounter
      [size |-> 1,   align |-> 1,  elems |-> 0],    \* u8
      [size |-> 4,   align |-> 1,  elems |-> 0],    \* [u8; 4]
      [size |-> 8,   align |-> 8,  elems |-> 0],    \* usize, Foo
      [size |-> 8,   align |-> 8,  elems |-> 1],    \* DropCounter
      [size |-> 16,  align |-> 8,  elems |-> 0],    \* [usize; 2]
      [size |-> 64,  align |-> 64, elems |-> 0],    \* OverAlignedByte
      [size |-> 128, align |-> 8,  elems |-> 16] }  \* [DropCounter; 16]

\* the catalog types that implement Zeroable: the integers and the arrays and
\* tuples of them; the over-aligned test structs and the drop counters do not
Zeroable(t) == t.elems = 0 /\ t.align <= PtrAlign

\* MiniBox::<T>::SIZE_CLASS
SIZE_CLASS == SizeClassNew(T.size, T.align, PtrSize, PtrAlign)

\* dangling::<T>()
dangling == T.align

Boxes == 1..MaxBoxes
\* the stack slots handle i can be placed in: where it is, and where a move
\* takes it
Locs(i) == {2 * i - 1, 2 * i}
HeapAddrs == { 128 * k : k \in 1..MaxHeap }
SlotAddr(loc) == 4096 + PtrSize * loc

\* a byte that was never written
Uninit == 0 - 1
\* the content of memory that is not a T: unallocated, freed, or torn
Garbage == 0 - 2

\* a value of T is written as its bytes: size bytes, all equal to fill
Values ==
    IF T.size = 0 THEN { [size |-> 0, fill |-> 0] }
    ELSE { [size |-> T.size, fill |-> b] : b \in 1..MaxFill }

NoValue == [size |-> 0, fill |-> Garbage]

\* the value of T whose bytes are all zero (core::mem::zeroed)
ZeroValue == [size |-> T.size, fill |-> 0]

\* MaybeUninit::uninit() and MaybeUninit::new(core::ptr::null()) as slot words
UninitWord == [i \in 1..PtrSize |-> Uninit]
NullWord == [i \in 1..PtrSize |-> 0]

RECURSIVE AddrBytes(_, _)
AddrBytes(a, n) == IF n = 0 THEN <<>> ELSE <<a % 256>> \o AddrBytes(a \div 256, n - 1)

\* a pointer stored in the slot: its address, little endian
AddrToWord(a) == AddrBytes(a, PtrSize)

RECURSIVE BytesAddr(_)
BytesAddr(w) == IF w = <<>> THEN 0 ELSE w[1] + 256 * BytesAddr(Tail(w))

\* the address a slot word holds (self.ptr.assume_init()); a word with an
\* uninitialized byte, or one that points beyond the memory there is (its
\* bytes above the second are not zero), is no address
WordToAddr(w) ==
    IF \E i \in 1..PtrSize : w[i] = Uninit THEN Garbage
    ELSE IF \E i \in 3..PtrSize : w[i] # 0 THEN Garbage
    ELSE BytesAddr(SubSeq(w, 1, 2))

\* a T read from the first size_of::<T>() bytes of a slot word; a read that
\* runs beyond the word gives no T
InlineRead(w) ==
    IF T.size = 0 THEN [size |-> 0, fill |-> 0]
    ELSE IF T.size <= PtrSize /\ \A i \in 1..T.size : w[i] = w[1]
    THEN [size |-> T.size, fill |-> w[1]]
    ELSE [size |-> T.size, fill |-> Garbage]

\* a T written over the first size_of::<T>() bytes of a slot word
InlineWrite(w, v) == [i \in 1..PtrSize |-> IF i <= v.size THEN v.fill ELSE w[i]]

FreeCell == [live |-> FALSE, size |-> 0, align |-> 0, fill |-> Garbage]

\* a handle of the caller: what it holds (st), the stack slot it is in (loc),
\* the slot word of a container or MiniPtr (ptr), the plain value into_inner
\* returned (val); orig remembers the value the container was built from
NoBox == [st |-> "none", loc |-> 0, ptr |-> UninitWord, val |-> NoValue, orig |-> NoValue]
Gone == [st |-> "gone", loc |-> 0, ptr |-> UninitWord, val |-> NoValue, orig |-> NoValue]
Staged(loc, word) ==
    [st |-> "staged", loc |-> loc, ptr |-> word, val |-> NoValue, orig |-> NoValue]

\* handles that occupy a slot on the stack
Slotted(b) == b.st \in {"box", "ptr", "staged"}

\* ptr::read of a T at an address: the dangling anchor reads no byte, a slot
\* reads its word, a heap address reads its cell
Load(boxes, h, addr) ==
    IF T.size = 0 THEN [size |-> 0, fill |-> 0]
    ELSE IF \E i \in DOMAIN boxes : Slotted(boxes[i]) /\ SlotAddr(boxes[i].loc) = addr
    THEN InlineRead(boxes[CHOOSE i \in DOMAIN boxes :
                        Slotted(boxes[i]) /\ SlotAddr(boxes[i].loc) = addr].ptr)
    ELSE IF addr \in HeapAddrs /\ h[addr].live /\ h[addr].size = T.size
    THEN [size |-> T.size, fill |-> h[addr].fill]
    ELSE [size |-> T.size, fill |-> Garbage]

\* ptr::write of a T at an address
StoreBoxes(boxes, addr, v) ==
    [i \in Boxes |->
        IF T.size # 0 /\ Slotted(boxes[i]) /\ SlotAddr(boxes[i].loc) = addr
        THEN [boxes[i] EXCEPT !.ptr = InlineWrite(@, v)]
        ELSE boxes[i]]

StoreHeap(h, addr, v) ==
    [a \in HeapAddrs |->
        IF T.size # 0 /\ a = addr /\ h[a].live
        THEN [h[a] EXCEPT !.fill = v.fill]
        ELSE h[a]]

----------------------------------------------------------------------------
(* The code's functions, as steps on the machine state
   m = [bx, heap, counter, events, fault, halted] *)

Machine ==
    [bx |-> bx, heap |-> heap, counter |-> counter,
     events |-> <<>>, fault |-> fault, halted |-> halted]

Emit(m, e) == [m EXCEPT !.events = Append(@, e)]

Fault(m, what) == [m EXCEPT !.fault = IF @ = "none" THEN what ELSE @]

\* the drop counter a value of T increments: the static one of a zero-sized
\* type, else the one the value's bytes refer to
CounterOf(v) == IF T.size = 0 THEN 0 ELSE v.fill

\* the destructor of a value of T (T's drop glue): one run per element
RunDestructor(m, v) ==
    IF T.elems = 0 THEN m
    ELSE IF CounterOf(v) \notin 0..MaxFill THEN Fault(m, "drop of garbage")
    ELSE Emit([m EXCEPT !.counter[CounterOf(v)] = @ + T.elems],
              [ev |-> "drop", idx |-> CounterOf(v), n |-> T.elems])

\* ptr::drop_in_place::<T>(addr)
DropInPlace(m, addr) == RunDestructor(m, Load(m.bx, m.heap, addr))

\* std::alloc::alloc / alloc_zeroed with Layout::new::<T>(), returning p
\* (0 is the null pointer)
Alloc(m, zeroed, p) ==
    LET m1 == Emit(m, [ev |-> "alloc", addr |-> p, size |-> T.size,
                       align |-> T.align, zeroed |-> zeroed])
    IN  IF p = 0 THEN m1
        ELSE [m1 EXCEPT !.heap[p] =
                [live |-> TRUE, size |-> T.size, align |-> T.align,
                 fill |-> IF zeroed THEN 0 ELSE Uninit]]

\* the global allocator's dealloc(addr, layout)
Dealloc(m, addr, size, align) ==
    LET m1 == Emit(m, [ev |-> "dealloc", addr |-> addr, size |-> size, align |-> align])
    IN  IF addr \notin HeapAddrs \/ ~m1.heap[addr].live
        THEN Fault(m1, "free of no allocation")
        ELSE IF m1.heap[addr].size # size \/ m1.heap[addr].align # align
        THEN Fault([m1 EXCEPT !.heap[addr] = FreeCell], "free with another layout")
        ELSE [m1 EXCEPT !.heap[addr] = FreeCell]

\* the address alloc returns for a T: the allocator is first fit, it hands out
\* the lowest free cell that is aligned for T
AllocSites(h) ==
    LET free == { a \in HeapAddrs : ~h[a].live /\ a % T.align = 0 }
    IN  { a \in free : \A b \in free : a <= b }

\* what alloc may return: a site, or null
AllocResults(h) == IF SIZE_CLASS = Boxed THEN AllocSites(h) \cup {0} ELSE {0}

\* MiniBox::new_zeroed_inline: the slot word, or "panic" for a Boxed class
new_zeroed_inline ==
    CASE SIZE_CLASS = Zero -> UninitWord
      [] SIZE_CLASS = Inline -> NullWord
      [] OTHER -> "panic"

\* with_alloc, had it no arm for Zero and Inline: every class is sent to the
\* allocator
with_alloc_AlwaysHeap(m, i, loc, zeroed, p) ==
    LET m1 == Alloc(m, zeroed, p)
    IN  IF p = 0
        THEN [Emit(m1, [ev |-> "handle_alloc_error"]) EXCEPT !.halted = TRUE]
        ELSE [m1 EXCEPT !.bx[i] = Staged(loc, AddrToWord(p))]

\* with_alloc, had it not looked at what the allocator returned
with_alloc_NoNullCheck(m, i, loc, zeroed, p) ==
    IF SIZE_CLASS \in {Zero, Inline}
    THEN [m EXCEPT !.bx[i] = Staged(loc, new_zeroed_inline)]
    ELSE [Alloc(m, zeroed, p) EXCEPT !.bx[i] = Staged(loc, AddrToWord(p))]

\* MiniBox::with_alloc: a staging container in handle i at loc
with_alloc(m, i, loc, zeroed, p) ==
    IF SIZE_CLASS \in {Zero, Inline}
    THEN [m EXCEPT !.bx[i] = Staged(loc, new_zeroed_inline)]
    ELSE LET m1 == Alloc(m, zeroed, p)
         IN  IF p = 0
             THEN [Emit(m1, [ev |-> "handle_alloc_error"]) EXCEPT !.halted = TRUE]
             ELSE [m1 EXCEPT !.bx[i] = Staged(loc, AddrToWord(p))]

\* deref, had it taken the slot for the value whenever there is a value
deref_SlotForAll(b) ==
    CASE SIZE_CLASS = Zero -> dangling
      [] OTHER -> SlotAddr(b.loc)

\* deref, had it taken the slot word for a pointer whenever there is a value
deref_PtrForAll(b) ==
    CASE SIZE_CLASS = Zero -> dangling
      [] OTHER -> WordToAddr(b.ptr)

\* <MiniBox<T> as Deref>::deref / deref_mut: the address of the value
deref(b) ==
    CASE SIZE_CLASS = Zero -> dangling
      [] SIZE_CLASS = Inline -> SlotAddr(b.loc)
      [] OTHER -> WordToAddr(b.ptr)

\* MiniBox<MaybeUninit<T>>::assume_init
assume_init(m, i) == [m EXCEPT !.bx[i].st = "box"]

\* write, had it only marked the container initialized
write_NoStore(m, i, v) == assume_init(m, i)

\* MiniBox<MaybeUninit<T>>::write
write(m, i, v) ==
    LET addr == deref(m.bx[i])
    IN  assume_init([m EXCEPT !.bx = StoreBoxes(m.bx, addr, v),
                              !.heap = StoreHeap(m.heap, addr, v)], i)

\* MiniBox::new_uninit
new_uninit(m, i, loc, p) == with_alloc(m, i, loc, FALSE, p)

\* new_zeroed, had it reserved with alloc where it reserves with alloc_zeroed
new_zeroed_PlainAlloc(m, i, loc, p) == with_alloc(m, i, loc, FALSE, p)

\* MiniBox::new_zeroed
new_zeroed(m, i, loc, p) == with_alloc(m, i, loc, TRUE, p)

\* MiniBox::<T>::zeroed, T: Zeroable
zeroed(m, i, loc, p) ==
    LET m1 == new_zeroed(m, i, loc, p)
    IN  IF m1.halted THEN m1 ELSE assume_init(m1, i)

\* MiniBox::new
new(m, i, loc, v, p) ==
    LET m1 == new_uninit(m, i, loc, p)
    IN  IF m1.halted THEN m1 ELSE write(m1, i, v)

\* new_zst without its check of the class
new_zst_NoCheck(m, i, loc, v) ==
    [m EXCEPT !.bx[i] = [Staged(loc, UninitWord) EXCEPT !.st = "box"]]

\* new_zst, had it dropped the value where it forgets it
new_zst_DropsValue(m, i, loc, v) ==
    IF SIZE_CLASS # Zero
    THEN [RunDestructor(Emit(m, [ev |-> "panic"]), v) EXCEPT !.bx[i] = Gone]
    ELSE [RunDestructor(m, v) EXCEPT
            !.bx[i] = [Staged(loc, UninitWord) EXCEPT !.st = "box"]]

\* MiniBox::new_zst. For another class than Zero it panics before anything is
\* built: the argument is dropped by the unwinding and the caller's handle
\* never holds a container
new_zst(m, i, loc, v) ==
    IF SIZE_CLASS # Zero
    THEN [RunDestructor(Emit(m, [ev |-> "panic"]), v) EXCEPT !.bx[i] = Gone]
    ELSE [m EXCEPT !.bx[i] = [Staged(loc, UninitWord) EXCEPT !.st = "box"]]

\* what the allocator may return to Box::new: a zero-sized T needs no
\* allocation, its Box points at the dangling address
BoxAllocResults(h) == IF T.size = 0 THEN {dangling} ELSE AllocSites(h) \cup {0}

\* std's Box::new(v), the allocator returning p
box_new(m, v, p) ==
    IF T.size = 0 THEN m
    ELSE LET m1 == Alloc(m, FALSE, p)
         IN  IF p = 0
             THEN [Emit(m1, [ev |-> "handle_alloc_error"]) EXCEPT !.halted = TRUE]
             ELSE [m1 EXCEPT !.heap = StoreHeap(m1.heap, p, v)]

\* std's box_free: a Box whose value was moved out of it goes out of scope;
\* its allocation, if it has one, is given back
box_free(m, addr) ==
    LET m1 == Emit(m, [ev |-> "box_free", addr |-> addr])
    IN  IF T.size = 0 THEN m1 ELSE Dealloc(m1, addr, T.size, T.align)

\* from(Box<T>), had it built the container from the value for every class
from_box_NewForAll(m, i, loc, addr) ==
    LET v == Load(m.bx, m.heap, addr)
        sites == AllocSites(m.heap)
        p == IF sites = {} THEN 0 ELSE CHOOSE a \in sites : TRUE
    IN  IF SIZE_CLASS = Zero
        THEN box_free(new_zst(m, i, loc, v), addr)
        ELSE box_free(new(m, i, loc, v, p), addr)

\* <MiniBox<T> as From<Box<T>>>::from, the Box pointing at addr
from_box(m, i, loc, addr) ==
    LET v == Load(m.bx, m.heap, addr)
    IN  CASE SIZE_CLASS = Zero -> box_free(new_zst(m, i, loc, v), addr)
          [] SIZE_CLASS = Inline -> box_free(new(m, i, loc, v, 0), addr)
          [] OTHER -> [m EXCEPT !.bx[i] =
                          [Staged(loc, AddrToWord(addr)) EXCEPT !.st = "box"]]

\* into_ptr, had it let the container go out of scope where it forgets it
into_ptr_Drops(m, i) ==
    LET m1 == CASE SIZE_CLASS = Zero -> DropInPlace(m, dangling)
                [] SIZE_CLASS = Inline -> DropInPlace(m, SlotAddr(m.bx[i].loc))
                [] OTHER -> Dealloc(DropInPlace(m, WordToAddr(m.bx[i].ptr)),
                                    WordToAddr(m.bx[i].ptr), T.size, T.align)
    IN  [m1 EXCEPT !.bx[i].st = "ptr"]

\* MiniBox::into_ptr
into_ptr(m, i) == [m EXCEPT !.bx[i].st = "ptr"]

\* MiniBox::from_ptr
from_ptr(m, i) == [m EXCEPT !.bx[i].st = "box"]

\* drop(Box::from_raw(addr)), had it given the allocation back before it
\* dropped the value
drop_box_FreeFirst(m, addr) == DropInPlace(Dealloc(m, addr, T.size, T.align), addr)

\* drop(Box::from_raw(addr)): the value, then its allocation
drop_box(m, addr) == Dealloc(DropInPlace(m, addr), addr, T.size, T.align)

\* drop, had its Boxed arm dropped the value in place and kept the allocation
drop_NoFree(m, i) ==
    LET m1 == CASE SIZE_CLASS = Zero -> DropInPlace(m, dangling)
                [] SIZE_CLASS = Inline -> DropInPlace(m, SlotAddr(m.bx[i].loc))
                [] OTHER -> DropInPlace(m, WordToAddr(m.bx[i].ptr))
    IN  [m1 EXCEPT !.bx[i] = Gone]

\* <MiniBox<T> as Drop>::drop
drop(m, i) ==
    LET m1 == CASE SIZE_CLASS = Zero -> DropInPlace(m, dangling)
                [] SIZE_CLASS = Inline -> DropInPlace(m, SlotAddr(m.bx[i].loc))
                [] OTHER -> drop_box(m, WordToAddr(m.bx[i].ptr))
    IN  [m1 EXCEPT !.bx[i] = Gone]

\* MaybeUninit<T>: the layout of T, and no destructor
MaybeUninitT == [size |-> T.size, align |-> T.align, elems |-> 0]

\* MiniBox::<MaybeUninit<T>>::SIZE_CLASS
SIZE_CLASS_UNINIT ==
    SizeClassNew(MaybeUninitT.size, MaybeUninitT.align, PtrSize, PtrAlign)

\* the drop of a staging container, had it been the drop of a MiniBox<T>
drop_uninit_AsInit(m, i) == drop(m, i)

\* <MiniBox<MaybeUninit<T>> as Drop>::drop: MaybeUninit<T> has no destructor,
\* drop_in_place of it runs nothing, the Box of it gives the allocation back
drop_uninit(m, i) ==
    LET m1 == CASE SIZE_CLASS_UNINIT = Zero -> m
                [] SIZE_CLASS_UNINIT = Inline -> m
                [] OTHER -> Dealloc(m, WordToAddr(m.bx[i].ptr),
                                    MaybeUninitT.size, MaybeUninitT.align)
    IN  [m1 EXCEPT !.bx[i] = Gone]

\* a panic unwinds through a function that holds the staging container i
unwind(m, i) == drop_uninit(Emit(m, [ev |-> "panic"]), i)

\* the call of a function of the caller's, or of a trait function under check
Call(fn) == [ev |-> "call", fn |-> fn]

\* with, had it called the producer before it reserved the storage
with_ProducerFirst(m, i, loc, p, v, panics) ==
    LET m1 == Emit(m, Call("producer"))
    IN  IF panics THEN [Emit(m1, [ev |-> "panic"]) EXCEPT !.bx[i] = Gone]
        ELSE LET m2 == new_uninit(m1, i, loc, p)
             IN  IF m2.halted THEN m2 ELSE write(m2, i, v)

\* MiniBox::with(value): the producer value() returns v, or panics
with(m, i, loc, p, v, panics) ==
    LET m1 == new_uninit(m, i, loc, p)
        m2 == Emit(m1, Call("producer"))
    IN  IF m1.halted THEN m1
        ELSE IF panics THEN unwind(m2, i)
        ELSE write(m2, i, v)

\* clone, had it copied the slot word of the container it clones
clone_CopiesWord(m, src, i, loc, p, panics) ==
    LET m1 == Emit(m, Call("clone"))
    IN  IF panics THEN [Emit(m1, [ev |-> "panic"]) EXCEPT !.bx[i] = Gone]
        ELSE [m1 EXCEPT !.bx[i] = [Staged(loc, m.bx[src].ptr) EXCEPT !.st = "box"]]

\* <MiniBox<T> as Clone>::clone of the container src: T::clone returns a value
\* equal to the one it is given, or panics
clone(m, src, i, loc, p, panics) ==
    LET m1 == new_uninit(m, i, loc, p)
        m2 == Emit(m1, Call("clone"))
    IN  IF m1.halted THEN m1
        ELSE IF panics THEN unwind(m2, i)
        ELSE write(m2, i, Load(m2.bx, m2.heap, deref(m2.bx[src])))

\* <MiniBox<T> as DerefMut>::deref_mut: the address of the value
deref_mut(b) ==
    CASE SIZE_CLASS = Zero -> dangling
      [] SIZE_CLASS = Inline -> SlotAddr(b.loc)
      [] OTHER -> WordToAddr(b.ptr)

\* <MiniBox<T> as Clone>::clone_from, the container i from the container src:
\* T::clone_from(&mut **self, &**other), which is *self = other.clone() for a
\* T that does not override it. T::clone returns a value equal to the one it
\* is given, or panics; the assignment drops the value that was there
clone_from(m, i, src, panics) ==
    LET dst == deref_mut(m.bx[i])
        v == Load(m.bx, m.heap, deref(m.bx[src]))
        m1 == Emit(m, Call("clone"))
        m2 == DropInPlace(m1, dst)
    IN  IF panics THEN Emit(m1, [ev |-> "panic"])
        ELSE [m2 EXCEPT !.bx = StoreBoxes(m2.bx, dst, v),
                        !.heap = StoreHeap(m2.heap, dst, v)]

\* as_ref, had it taken the word of the MiniPtr for a pointer whenever there
\* is a value
as_ref_PtrForAll(b) ==
    CASE SIZE_CLASS = Zero -> dangling
      [] OTHER -> WordToAddr(b.ptr)

\* MiniPtr::from_raw: the usize transmuted to the slot word, byte by byte
from_raw(w) == AddrToWord(w)

\* to_raw, had it read the word for every class
to_raw_WordForAll(word) == BytesAddr(word)

\* MiniPtr::to_raw: the word as a usize
to_raw(word) ==
    CASE SIZE_CLASS = Zero -> T.align
      [] OTHER -> BytesAddr(word)

\* MiniPtr::as_ref / as_mut: the address of the value
as_ref(b) ==
    CASE SIZE_CLASS = Zero -> dangling
      [] SIZE_CLASS = Inline -> SlotAddr(b.loc)
      [] OTHER -> WordToAddr(b.ptr)

\* into_inner, had its Boxed arm dropped the box where it moves out of it
into_inner_DropsValue(m, i) ==
    LET m1 == [m EXCEPT !.bx[i].st = "ptr"]
        addr == CASE SIZE_CLASS = Zero -> dangling
                  [] SIZE_CLASS = Inline -> SlotAddr(m1.bx[i].loc)
                  [] OTHER -> WordToAddr(m1.bx[i].ptr)
        v == Load(m1.bx, m1.heap, addr)
        m2 == IF SIZE_CLASS = Boxed
              THEN Dealloc(DropInPlace(m1, addr), addr, T.size, T.align)
              ELSE m1
    IN  [m2 EXCEPT !.bx[i] = [@ EXCEPT !.st = "value", !.loc = 0,
                                        !.ptr = UninitWord, !.val = v]]

\* into_inner, had its Boxed arm read the value and left the allocation alone
into_inner_NoFree(m, i) ==
    LET m1 == into_ptr(m, i)
        addr == CASE SIZE_CLASS = Zero -> dangling
                  [] SIZE_CLASS = Inline -> as_ref(m1.bx[i])
                  [] OTHER -> WordToAddr(m1.bx[i].ptr)
        v == Load(m1.bx, m1.heap, addr)
    IN  [m1 EXCEPT !.bx[i] = [@ EXCEPT !.st = "value", !.loc = 0,
                                        !.ptr = UninitWord, !.val = v]]

\* into_inner, had it read from the container without into_ptr: the container
\* is still dropped when the function returns
into_inner_NoForget(m, i) ==
    LET addr == CASE SIZE_CLASS = Zero -> dangling
                  [] SIZE_CLASS = Inline -> as_ref(m.bx[i])
                  [] OTHER -> WordToAddr(m.bx[i].ptr)
        v == Load(m.bx, m.heap, addr)
        m2 == IF SIZE_CLASS = Boxed THEN Dealloc(m, addr, T.size, T.align) ELSE m
        m3 == drop(m2, i)
    IN  [m3 EXCEPT !.bx[i] = [@ EXCEPT !.st = "value", !.loc = 0,
                                        !.ptr = UninitWord, !.val = v]]

\* MiniBox::into_inner
into_inner(m, i) ==
    LET m1 == into_ptr(m, i)
        addr == CASE SIZE_CLASS = Zero -> dangling
                  [] SIZE_CLASS = Inline -> as_ref(m1.bx[i])
                  [] OTHER -> WordToAddr(m1.bx[i].ptr)
        v == Load(m1.bx, m1.heap, addr)
        m2 == IF SIZE_CLASS = Boxed THEN Dealloc(m1, addr, T.size, T.align) ELSE m1
    IN  [m2 EXCEPT !.bx[i] = [@ EXCEPT !.st = "value", !.loc = 0,
                                        !.ptr = UninitWord, !.val = v]]

----------------------------------------------------------------------------
(* The operations of a caller that owns the handles 1..MaxBoxes *)

NoOp == [op |-> "none", box |-> 0, outcome |-> "ok", addr |-> 0, val |-> NoValue]

Did(op, i, outcome) ==
    [op |-> op, box |-> i, outcome |-> outcome, addr |-> 0, val |-> NoValue]

\* the container in handle i was built from v
From(m, i, v) == IF m.bx[i].st = "box" THEN [m EXCEPT !.bx[i].orig = v] ELSE m

FreeLocs(i) == { l \in Locs(i) : Slotted(bx[i]) => bx[i].loc # l }

\* the place a new container of handle i is built in: the first of its places
NewLocs(i) == { l \in FreeLocs(i) : \A k \in FreeLocs(i) : l <= k }

\* the machine state after an operation becomes the state
Commit(m) ==
    /\ bx' = m.bx
    /\ heap' = m.heap
    /\ counter' = m.counter
    /\ events' = m.events
    /\ fault' = m.fault
    /\ halted' = m.halted

\* the values the caller gives to handle i: values are told apart by their
\* bytes only, so the caller numbers them in the order of its handles
ValuesOf(i) == { v \in Values : v.fill <= i }

\* a value with a destructor was constructed
Made(v) ==
    made' = IF T.elems = 0 THEN made ELSE [made EXCEPT ![CounterOf(v)] = @ + 1]

\* the caller takes its handles in order
Unused(i) == bx[i].st = "none" /\ \A j \in 1..(i - 1) : bx[j].st # "none"

\* let b = MiniBox::new(v)
New(i) ==
    /\ ~halted /\ Unused(i)
    /\ \E loc \in NewLocs(i), v \in ValuesOf(i), p \in AllocResults(heap) :
        LET m == new(Machine, i, loc, v, p)
        IN  /\ Commit(From(m, i, v))
            /\ last' = [Did("new", i, IF m.halted THEN "abort" ELSE "ok")
                            EXCEPT !.val = v]
            /\ IF m.halted THEN UNCHANGED made ELSE Made(v)
    /\ UNCHANGED <<T, arg, cls>>

\* let b = MiniBox::<T>::zeroed()
Zeroed(i) ==
    /\ ~halted /\ Unused(i) /\ Zeroable(T)
    /\ \E loc \in NewLocs(i), p \in AllocResults(heap) :
        LET m == zeroed(Machine, i, loc, p)
        IN  /\ Commit(From(m, i, ZeroValue))
            /\ last' = Did("zeroed", i, IF m.halted THEN "abort" ELSE "ok")
    /\ UNCHANGED <<T, made, arg, cls>>

\* let b = MiniBox::from(Box::new(v))
FromBox(i) ==
    /\ ~halted /\ Unused(i)
    /\ \E loc \in NewLocs(i), v \in ValuesOf(i), p \in BoxAllocResults(heap) :
        LET m0 == box_new(Machine, v, p)
            m == IF m0.halted THEN m0 ELSE from_box(Emit(m0, Call("from")), i, loc, p)
        IN  /\ Commit(From(m, i, v))
            /\ last' = [Did("from_box", i, IF m.halted THEN "abort" ELSE "ok")
                            EXCEPT !.val = v, !.addr = p]
            /\ IF m.halted THEN UNCHANGED made ELSE Made(v)
    /\ UNCHANGED <<T, arg, cls>>

\* how an operation that reserves and then calls into the caller ended
Ended(m, panics) == IF m.halted THEN "abort" ELSE IF panics THEN "panic" ELSE "ok"

\* let b = MiniBox::with(|| v)
With(i) ==
    /\ ~halted /\ Unused(i)
    /\ \E loc \in NewLocs(i), v \in ValuesOf(i), p \in AllocResults(heap),
          panics \in BOOLEAN :
        LET m == with(Machine, i, loc, p, v, panics)
        IN  /\ Commit(From(m, i, v))
            /\ last' = [Did("with", i, Ended(m, panics)) EXCEPT !.val = v]
            /\ IF Ended(m, panics) = "ok" THEN Made(v) ELSE UNCHANGED made
    /\ UNCHANGED <<T, arg, cls>>

\* let b = c.clone()
Clone(i) ==
    /\ ~halted /\ Unused(i)
    /\ \E src \in Boxes, loc \in NewLocs(i), p \in AllocResults(heap),
          panics \in BOOLEAN :
        /\ bx[src].st = "box"
        /\ LET m == clone(Machine, src, i, loc, p, panics)
               v == Load(bx, heap, deref(bx[src]))
           IN  /\ Commit(From(m, i, v))
               /\ last' = [Did("clone", i, Ended(m, panics))
                               EXCEPT !.val = v, !.addr = deref(bx[src])]
               /\ IF Ended(m, panics) = "ok" THEN Made(v) ELSE UNCHANGED made
    /\ UNCHANGED <<T, arg, cls>>

\* how many values with a destructor were constructed, over the counters 0..k
RECURSIVE MadeUpTo(_)
MadeUpTo(k) == IF k < 0 THEN 0 ELSE made[k] + MadeUpTo(k - 1)

\* b.clone_from(&c), c a container of an earlier handle than b (the values
\* stay numbered in the order of the handles). The caller clones into a
\* container as long as it has made no more values than it has handles
CloneFrom(i) ==
    /\ ~halted /\ bx[i].st = "box"
    /\ \E src \in 1..(i - 1), panics \in BOOLEAN :
        /\ bx[src].st = "box"
        /\ LET m == clone_from(Machine, i, src, panics)
               v == Load(bx, heap, deref(bx[src]))
           IN  /\ T.elems > 0 /\ ~panics => MadeUpTo(MaxFill) <= MaxBoxes
               /\ Commit(IF panics THEN m ELSE From(m, i, v))
               /\ last' = [Did("clone_from", i, IF panics THEN "panic" ELSE "ok")
                               EXCEPT !.val = v, !.addr = deref_mut(bx[i])]
               /\ IF panics THEN UNCHANGED made ELSE Made(v)
    /\ UNCHANGED <<T, arg, cls>>

\* drop(MiniBox::<T>::new_uninit()): a staging container that is never written
NewUninit(i) ==
    /\ ~halted /\ Unused(i)
    /\ \E loc \in NewLocs(i), p \in AllocResults(heap) :
        LET m1 == new_uninit(Machine, i, loc, p)
            m == IF m1.halted THEN m1 ELSE drop_uninit(m1, i)
        IN  /\ Commit(m)
            /\ last' = Did("new_uninit", i, IF m.halted THEN "abort" ELSE "ok")
    /\ UNCHANGED <<T, made, arg, cls>>

\* let b = MiniBox::new_zst(v)
NewZst(i) ==
    /\ ~halted /\ Unused(i)
    /\ \E loc \in NewLocs(i), v \in ValuesOf(i) :
        LET m == new_zst(Machine, i, loc, v)
        IN  /\ Commit(From(m, i, v))
            /\ last' = [Did("new_zst", i, IF m.bx[i].st = "box" THEN "ok" ELSE "panic")
                            EXCEPT !.val = v]
            /\ Made(v)
    /\ UNCHANGED <<T, arg, cls>>

\* &*b
Deref(i) ==
    /\ ~halted /\ bx[i].st = "box"
    /\ last' = [op |-> "deref", box |-> i, outcome |-> "ok", addr |-> deref(bx[i]),
                val |-> Load(bx, heap, deref(bx[i]))]
    /\ events' = <<>>
    /\ UNCHANGED <<T, bx, heap, counter, made, fault, halted, arg, cls>>

\* let b = b: the handle (a container or a MiniPtr) is moved to another place
Move(i) ==
    /\ ~halted /\ bx[i].st \in {"box", "ptr"}
    /\ \E loc \in FreeLocs(i) : bx' = [bx EXCEPT ![i].loc = loc]
    /\ last' = Did("move", i, "ok")
    /\ events' = <<>>
    /\ UNCHANGED <<T, heap, counter, made, fault, halted, arg, cls>>

\* let p = MiniBox::into_ptr(b)
IntoPtr(i) ==
    /\ ~halted /\ bx[i].st = "box"
    /\ Commit(into_ptr(Machine, i))
    /\ last' = Did("into_ptr", i, "ok")
    /\ UNCHANGED <<T, made, arg, cls>>

\* let b = MiniBox::from_ptr(p), p used for nothing else
FromPtr(i) ==
    /\ ~halted /\ bx[i].st = "ptr"
    /\ Commit(from_ptr(Machine, i))
    /\ last' = Did("from_ptr", i, "ok")
    /\ UNCHANGED <<T, made, arg, cls>>

\* let q = p: MiniPtr is Copy, the copy is the same word in the slot l
CopyOf(p, l) == [p EXCEPT !.loc = l]

\* the stack with the copy q of a MiniPtr on it, next to the handles
WithCopy(boxes, q) == (0 :> q) @@ boxes

\* let q = p; q.as_ref(), or p.as_ref(): a borrow of the value through the
\* decomposed MiniPtr or through a copy of it
AsRef(i) ==
    /\ ~halted /\ bx[i].st = "ptr"
    /\ \E l \in Locs(i) :
        LET q == CopyOf(bx[i], l)
        IN  last' = [op |-> "as_ref", box |-> i, outcome |-> "ok", addr |-> as_ref(q),
                     val |-> Load(WithCopy(bx, q), heap, as_ref(q))]
    /\ events' = <<>>
    /\ UNCHANGED <<T, bx, heap, counter, made, fault, halted, arg, cls>>

\* let v = MiniBox::into_inner(b)
IntoInner(i) ==
    /\ ~halted /\ bx[i].st = "box"
    /\ LET m == into_inner(Machine, i)
       IN  /\ Commit(m)
           /\ last' = [Did("into_inner", i, "ok") EXCEPT !.val = m.bx[i].val]
    /\ UNCHANGED <<T, made, arg, cls>>

\* mem::drop(b), or b going out of scope
Drop(i) ==
    /\ ~halted /\ bx[i].st = "box"
    /\ Commit(drop(Machine, i))
    /\ last' = Did("drop", i, "ok")
    /\ UNCHANGED <<T, made, arg, cls>>

\* mem::drop(v) of the value into_inner returned
DropValue(i) ==
    /\ ~halted /\ bx[i].st = "value"
    /\ Commit([RunDestructor(Machine, bx[i].val) EXCEPT !.bx[i] = Gone])
    /\ last' = Did("drop_value", i, "ok")
    /\ UNCHANGED <<T, made, arg, cls>>

Init ==
    /\ T \in TypeCatalog
    /\ bx = [i \in Boxes |-> NoBox]
    /\ heap = [a \in HeapAddrs |-> FreeCell]
    /\ counter = [k \in 0..MaxFill |-> 0]
    /\ made = [k \in 0..MaxFill |-> 0]
    /\ last = NoOp
    /\ events = <<>>
    /\ fault = "none"
    /\ halted = FALSE
    /\ arg = NoArg
    /\ cls = NoCls

Next ==
    \E i \in Boxes :
        \/ New(i)
        \/ Zeroed(i)
        \/ FromBox(i)
        \/ With(i)
        \/ Clone(i)
        \/ CloneFrom(i)
        \/ NewUninit(i)
        \/ NewZst(i)
        \/ Deref(i)
        \/ Move(i)
        \/ IntoPtr(i)
        \/ FromPtr(i)
        \/ AsRef(i)
        \/ IntoInner(i)
        \/ Drop(i)
        \/ DropValue(i)

Spec == Init /\ [][Next]_vars

----------------------------------------------------------------------------
(* SizeClass::new on its own, for every layout and target *)

Classify ==
    /\ cls = NoCls
    /\ cls' = [table |-> SizeClassNew(arg.layout.size, arg.layout.align,
                                      arg.target[1], arg.target[2]),
               nightly |-> SizeClassNewNightly(arg.layout.size, arg.layout.align,
                                               arg.target[1], arg.target[2])]
    /\ UNCHANGED <<T, bx, heap, counter, made, last, events, fault, halted, arg>>

InitClass ==
    /\ arg \in ClassInputs
    /\ cls = NoCls
    /\ T = [size |-> 0, align |-> 1, elems |-> 0]
    /\ bx = [i \in Boxes |-> NoBox]
    /\ heap = [a \in HeapAddrs |-> FreeCell]
    /\ counter = [k \in 0..MaxFill |-> 0]
    /\ made = [k \in 0..MaxFill |-> 0]
    /\ last = NoOp
    /\ events = <<>>
    /\ fault = "none"
    /\ halted = FALSE

NextClass == Classify

SpecClass == InitClass /\ [][NextClass]_vars

----------------------------------------------------------------------------
(* MiniPtr::from_raw and MiniPtr::to_raw on their own, for every type of the
   catalog and words of one to four significant bytes *)

\* the words given to from_raw: null, the heap addresses, and the powers of
\* two and their predecessors
RawWords ==
    {0} \cup HeapAddrs
        \cup { Pow2(k) : k \in 0..(6 * MaxAlignExp) }
        \cup { Pow2(k) - 1 : k \in 0..(6 * MaxAlignExp) }

ToRaw ==
    /\ cls = NoCls
    /\ cls' = [raw |-> to_raw(from_raw(arg.word))]
    /\ UNCHANGED <<T, bx, heap, counter, made, last, events, fault, halted, arg>>

InitRaw ==
    /\ T \in TypeCatalog
    /\ arg \in [word : RawWords]
    /\ cls = NoCls
    /\ bx = [i \in Boxes |-> NoBox]
    /\ heap = [a \in HeapAddrs |-> FreeCell]
    /\ counter = [k \in 0..MaxFill |-> 0]
    /\ made = [k \in 0..MaxFill |-> 0]
    /\ last = NoOp
    /\ events = <<>>
    /\ fault = "none"
    /\ halted = FALSE

NextRaw == ToRaw

SpecRaw == InitRaw /\ [][NextRaw]_vars

----------------------------------------------------------------------------
(* Properties *)

IsAllocatorCall(e) == e.ev \in {"alloc", "dealloc", "handle_alloc_error"}
IsDestructorRun(e) == e.ev = "drop"

\* the allocator calls and the destructor runs of the last operation
AllocatorCalls == SelectSeq(events, IsAllocatorCall)
DestructorRuns == SelectSeq(events, IsDestructorRun)

\* C1: for every size and alignment SizeClass::new is Zero when the size is 0,
\* else Inline when the size is at most the pointer's and the alignment is at
\* most the pointer's, else Boxed; the table of the build without "nightly"
\* and the if/else chain of the "nightly" build give the same class.
C1_SizeClassRule ==
    cls # NoCls =>
        LET size == arg.layout.size
            align == arg.layout.align
            fits == size <= arg.target[1] /\ align <= arg.target[2]
        IN  /\ cls.table = cls.nightly
            /\ size = 0 => cls.table = Zero
            /\ size # 0 /\ fits => cls.table = Inline
            /\ size # 0 /\ ~fits => cls.table = Boxed

\* a type as small as a pointer but more aligned was classified, as Boxed
C1_Witness ==
    /\ cls # NoCls
    /\ arg.layout.size # 0
    /\ arg.layout.size <= arg.target[1]
    /\ arg.layout.align > arg.target[2]
    /\ cls.table = Boxed

\* C2: for a type of class Zero or Inline, MiniBox::new, deref and drop never
\* call the allocator: no allocate, no deallocate, and the heap stays empty.
C2_NoAllocatorCall ==
    (SIZE_CLASS \in {Zero, Inline} /\ last.op \in {"new", "deref", "drop"}) =>
        /\ AllocatorCalls = <<>>
        /\ \A a \in HeapAddrs : ~heap[a].live
        /\ last.outcome = "ok"

\* an Inline container with a destructor was built and dropped, the destructor ran
C2_Witness ==
    /\ SIZE_CLASS = Inline
    /\ last.op = "drop"
    /\ T.elems > 0
    /\ DestructorRuns # <<>>
    /\ \E i \in Boxes : bx[i].st = "box"

\* C3: for a Boxed type, MiniBox::new calls allocate exactly once, the
\* container's drop calls deallocate exactly once, for the allocation made at
\* construction, and deref and moves of the handle call the allocator not at all.
C3_OneAllocOneFree ==
    [][SIZE_CLASS = Boxed =>
        \A i \in Boxes :
            LET a == WordToAddr(bx[i].ptr)
                a2 == WordToAddr(bx'[i].ptr)
            IN  /\ (bx[i].st = "none" /\ bx'[i].st = "box" /\ last'.op = "new") =>
                    /\ events' = << [ev |-> "alloc", addr |-> a2, size |-> T.size,
                                     align |-> T.align, zeroed |-> FALSE] >>
                    /\ a2 \in HeapAddrs /\ ~heap[a2].live /\ heap'[a2].live
                /\ (bx[i].st = "box" /\ bx'[i].st = "box") =>
                    /\ a2 = a /\ heap'[a].live
                    /\ (last'.box = i /\ last'.op \in {"deref", "move"}) => events' = <<>>
                /\ (bx[i].st = "box" /\ bx'[i].st = "gone") =>
                    /\ SelectSeq(events', IsAllocatorCall) =
                         << [ev |-> "dealloc", addr |-> a, size |-> T.size,
                             align |-> T.align] >>
                    /\ heap[a].live /\ ~heap'[a].live
                    /\ fault' = "none"
    ]_vars

\* a Boxed container was dropped while another one is alive: one deallocate,
\* and the other's allocation is still there
C3_Witness ==
    /\ SIZE_CLASS = Boxed
    /\ last.op = "drop"
    /\ Len(AllocatorCalls) = 1
    /\ \E i \in Boxes : bx[i].st = "box" /\ heap[WordToAddr(bx[i].ptr)].live

\* the handles that own a value whose drop counter is k
Owners(k) ==
    { i \in Boxes : bx[i].st \in {"box", "ptr", "value"} /\ CounterOf(bx[i].orig) = k }

DropOf(k) == [ev |-> "drop", idx |-> k, n |-> T.elems]

\* C4: across MiniBox::new -> into_ptr -> from_ptr -> drop, for each class, the
\* destructor of the value runs once in all and only at the drop: no
\* destructor runs in new, into_ptr and from_ptr, the drop runs one per
\* element (1 for a single value, 16 for the array of 16), and every drop counter
\* stands at one run per element of each value that is owned no more.
C4_DroppedOnceAtDrop ==
    T.elems > 0 =>
        /\ \A k \in 0..MaxFill :
            counter[k] = T.elems * (made[k] - Cardinality(Owners(k)))
        /\ last.op \in {"new", "into_ptr", "from_ptr"} => DestructorRuns = <<>>
        /\ last.op = "drop" =>
            \E k \in 0..MaxFill : DestructorRuns = << DropOf(k) >>
        /\ fault = "none"

\* the array of 16 was dropped, its counter stands at 16, while a second
\* container of an equal value, decomposed to a MiniPtr, has not been dropped
C4_Witness ==
    /\ T.elems = 16
    /\ last.op = "drop"
    /\ \E k \in 1..MaxFill, i \in Boxes :
        /\ counter[k] = 16
        /\ made[k] = 2
        /\ bx[i].st = "ptr" /\ CounterOf(bx[i].orig) = k

\* C5: the value read through deref of MiniBox::new(v) is v, and into_inner
\* returns v, for every class, whatever moves, into_ptr and from_ptr happened
\* in between.
C5_RoundTrip ==
    /\ \A i \in Boxes :
        /\ bx[i].st = "box" => Load(bx, heap, deref(bx[i])) = bx[i].orig
        /\ bx[i].st = "value" => bx[i].val = bx[i].orig
    /\ last.op = "new" /\ last.outcome = "ok" => bx[last.box].orig = last.val
    /\ last.op \in {"deref", "into_inner"} => last.val = bx[last.box].orig

\* into_inner returned the second value of a Boxed type
C5_Witness ==
    /\ SIZE_CLASS = Boxed
    /\ last.op = "into_inner"
    /\ last.val = [size |-> T.size, fill |-> MaxFill]
    /\ bx[last.box].orig = last.val

\* C6: MiniBox::into_inner runs no destructor: it leaves the drop counters as
\* they are, and they rise, by one per element, when the value it returned is
\* dropped; for a Boxed type into_inner frees the allocation once, for Zero and
\* Inline it calls the allocator not at all.
C6_IntoInnerDropsNothing ==
    [][\A i \in Boxes :
        /\ (bx[i].st = "box" /\ bx'[i].st = "value") =>
            /\ counter' = counter
            /\ events' =
                 IF SIZE_CLASS = Boxed
                 THEN << [ev |-> "dealloc", addr |-> WordToAddr(bx[i].ptr),
                          size |-> T.size, align |-> T.align] >>
                 ELSE <<>>
            /\ SIZE_CLASS = Boxed =>
                 heap[WordToAddr(bx[i].ptr)].live /\ ~heap'[WordToAddr(bx[i].ptr)].live
            /\ fault' = "none"
        /\ (bx[i].st = "value" /\ bx'[i].st = "gone") =>
            /\ counter' =
                 IF T.elems = 0 THEN counter
                 ELSE [counter EXCEPT ![CounterOf(bx[i].val)] = @ + T.elems]
            /\ SelectSeq(events', IsAllocatorCall) = <<>>
    ]_vars

\* the array of 16 came out of into_inner and was dropped: 16 runs
C6_Witness ==
    /\ T.elems = 16
    /\ last.op = "drop_value"
    /\ \E k \in 1..MaxFill : counter[k] = 16 /\ DestructorRuns = << DropOf(k) >>

\* C7: for a Boxed type the address deref gives is the same before and after
\* the handle is moved, however often it is moved.
C7_BoxedAddressStable ==
    [][SIZE_CLASS = Boxed =>
        \A i \in Boxes :
            (bx[i].st = "box" /\ bx'[i].st = "box") => deref(bx'[i]) = deref(bx[i])
    ]_vars

\* a Boxed container (over-aligned, not larger than what fits) was moved
C7_Witness ==
    /\ SIZE_CLASS = Boxed
    /\ T.align > PtrAlign
    /\ last.op = "move"
    /\ bx[last.box].st = "box"
    /\ deref(bx[last.box]) \in HeapAddrs

\* C8: for an Inline type deref gives the address of the container's own slot;
\* after the container is moved to another slot the address differs from the
\* one before and the value read is the same.
C8_InlineMovesWithHandle ==
    [][SIZE_CLASS = Inline =>
        \A i \in Boxes :
            /\ bx[i].st = "box" => deref(bx[i]) = SlotAddr(bx[i].loc)
            /\ (bx[i].st = "box" /\ bx'[i].st = "box" /\ bx'[i].loc # bx[i].loc) =>
                /\ deref(bx'[i]) # deref(bx[i])
                /\ Load(bx', heap', deref(bx'[i])) = Load(bx, heap, deref(bx[i]))
    ]_vars

\* an Inline container smaller than the slot was moved
C8_Witness ==
    /\ SIZE_CLASS = Inline
    /\ T.size < PtrSize
    /\ last.op = "move"
    /\ bx[last.box].st = "box"
    /\ Load(bx, heap, deref(bx[last.box])).fill = MaxFill

\* C9: MiniBox::new_zst panics for a type of class Inline or Boxed and gives
\* no container; for a type of class Zero it gives a container without any
\* allocator call.
C9_NewZstOnlyForZero ==
    last.op = "new_zst" =>
        /\ AllocatorCalls = <<>>
        /\ IF SIZE_CLASS = Zero
           THEN /\ last.outcome = "ok"
                /\ bx[last.box].st = "box"
                /\ \A n \in 1..Len(events) : events[n].ev # "panic"
           ELSE /\ last.outcome = "panic"
                /\ bx[last.box].st = "gone"
                /\ \E n \in 1..Len(events) : events[n].ev = "panic"

\* new_zst was called for a Boxed type and panicked
C9_Witness ==
    /\ SIZE_CLASS = Boxed
    /\ last.op = "new_zst"
    /\ last.outcome = "panic"

\* C10, as claimed: in MiniBox::new_zst for a Zero type with a destructor the
\* value is moved in and its destructor is run at once, during construction.
C10_DroppedAtConstruction ==
    (SIZE_CLASS = Zero /\ T.elems > 0 /\ last.op = "new_zst") =>
        DestructorRuns = << DropOf(0) >>

\* C10, amended: in MiniBox::new_zst for a Zero type with a destructor the
\* value is moved in and forgotten, no destructor runs during construction;
\* the destructor runs later, once: when the container is dropped, when
\* the value into_inner took out of it is dropped, or when clone_from
\* replaces the value.
C10_ForgottenUntilDrop ==
    (SIZE_CLASS = Zero /\ T.elems > 0) =>
        /\ last.op = "new_zst" =>
            /\ DestructorRuns = <<>>
            /\ bx[last.box].st = "box"
        /\ last.op \in {"drop", "drop_value"} => DestructorRuns = << DropOf(0) >>
        /\ (last.op = "clone_from" /\ last.outcome = "ok") =>
            DestructorRuns = << DropOf(0) >>
        /\ (last.op = "clone_from" /\ last.outcome = "panic") => DestructorRuns = <<>>
        /\ last.op \notin {"drop", "drop_value", "clone_from"} => DestructorRuns = <<>>
        /\ counter[0] = T.elems * (made[0] - Cardinality(Owners(0)))

\* new_zst built a container of a zero-sized type with a destructor, after
\* another one was dropped: one run so far
C10_Witness ==
    /\ SIZE_CLASS = Zero /\ T.elems > 0
    /\ last.op = "new_zst"
    /\ made[0] = 2
    /\ counter[0] = T.elems
    /\ bx[last.box].st = "box"

\* C11: for a Zeroable type of any class the container MiniBox::zeroed()
\* returns reads through deref as the all-zero value of T; for Inline the slot
\* word is all zero, for Boxed the storage comes from one call of
\* alloc_zeroed, and nothing is stored after the reservation: the memory is as
\* the reservation left it.
C11_ZeroedReadsZero ==
    (last.op = "zeroed" /\ last.outcome = "ok") =>
        LET b == bx[last.box]
        IN  /\ Zeroable(T)
            /\ b.st = "box"
            /\ Load(bx, heap, deref(b)) = ZeroValue
            /\ SIZE_CLASS = Zero => b.ptr = UninitWord /\ events = <<>>
            /\ SIZE_CLASS = Inline => b.ptr = NullWord /\ events = <<>>
            /\ SIZE_CLASS = Boxed =>
                /\ events = << [ev |-> "alloc", addr |-> WordToAddr(b.ptr),
                                size |-> T.size, align |-> T.align,
                                zeroed |-> TRUE] >>
                /\ heap[WordToAddr(b.ptr)] =
                     [live |-> TRUE, size |-> T.size, align |-> T.align, fill |-> 0]

\* a Boxed container was made by zeroed() next to one that holds another value
C11_Witness ==
    /\ SIZE_CLASS = Boxed
    /\ last.op = "zeroed" /\ last.outcome = "ok"
    /\ Load(bx, heap, deref(bx[last.box])) = ZeroValue
    /\ \E j \in Boxes : j # last.box /\ bx[j].st = "box" /\ bx[j].orig.fill # 0

\* the events of the last operation that follow the call of fn
AfterCall(fn) ==
    LET n == CHOOSE k \in 1..Len(events) : events[k] = Call(fn)
    IN  SubSeq(events, n + 1, Len(events))

\* C12: MiniBox::from(Box<T>) gives the representation of T's class. For Zero
\* and Inline the value is moved out of the Box into a container that owns no
\* heap allocation, and the Box is released once: its allocation, which a Box
\* has for every T that is not zero-sized, is deallocated once. For Boxed the
\* container takes over the Box's address, with no allocate and no deallocate
\* call. In every case the container holds the value the Box held and no
\* destructor runs during the conversion.
C12_FromBoxCanonical ==
    (last.op = "from_box" /\ last.outcome = "ok") =>
        LET b == bx[last.box]
            a == last.addr
            released == << [ev |-> "box_free", addr |-> a] >>
            freed == << [ev |-> "dealloc", addr |-> a, size |-> T.size,
                         align |-> T.align] >>
        IN  /\ b.st = "box"
            /\ b.orig = last.val
            /\ Load(bx, heap, deref(b)) = last.val
            /\ DestructorRuns = <<>>
            /\ fault = "none"
            /\ SIZE_CLASS = Zero =>
                /\ b.ptr = UninitWord
                /\ AfterCall("from") = released
                /\ AllocatorCalls = <<>>
            /\ SIZE_CLASS = Inline =>
                /\ b.ptr = InlineWrite(NullWord, last.val)
                /\ deref(b) = SlotAddr(b.loc)
                /\ AfterCall("from") = released \o freed
                /\ ~heap[a].live
            /\ SIZE_CLASS = Boxed =>
                /\ AfterCall("from") = <<>>
                /\ WordToAddr(b.ptr) = a
                /\ heap[a] = [live |-> TRUE, size |-> T.size, align |-> T.align,
                               fill |-> last.val.fill]

\* a Box of an Inline type with a destructor was converted: the Box's
\* allocation was given back, the value was not dropped
C12_Witness ==
    /\ SIZE_CLASS = Inline /\ T.elems > 0
    /\ last.op = "from_box" /\ last.outcome = "ok"
    /\ Len(AllocatorCalls) = 2
    /\ \A a \in HeapAddrs : ~heap[a].live
    /\ counter[CounterOf(last.val)] = 0

\* the handles that are responsible for the heap allocation at a: containers,
\* and MiniPtrs that are outside a container
HeapOwners(a) ==
    { i \in Boxes : bx[i].st \in {"box", "ptr"} /\ WordToAddr(bx[i].ptr) = a }

\* C13: whatever containers were constructed, moved, decomposed by into_ptr,
\* recomposed by from_ptr (each MiniPtr once), extracted by into_inner and
\* dropped, every live heap allocation of a Boxed type has exactly one owner, a
\* container or a decomposed MiniPtr, and every such owner has a live
\* allocation of its own.
C13_SingleOwner ==
    SIZE_CLASS = Boxed =>
        /\ \A a \in HeapAddrs : heap[a].live => Cardinality(HeapOwners(a)) = 1
        /\ \A i \in Boxes :
            bx[i].st \in {"box", "ptr"} =>
                /\ WordToAddr(bx[i].ptr) \in HeapAddrs
                /\ heap[WordToAddr(bx[i].ptr)].live

\* one Boxed container was extracted by into_inner while the allocation of
\* another is owned by a decomposed MiniPtr
C13_Witness ==
    /\ SIZE_CLASS = Boxed
    /\ last.op = "into_inner"
    /\ \E i \in Boxes : bx[i].st = "ptr" /\ HeapOwners(WordToAddr(bx[i].ptr)) = {i}
    /\ Cardinality({ a \in HeapAddrs : heap[a].live }) = 1

\* C14: with each MiniPtr of into_ptr given to from_ptr at most once, no
\* operation frees an allocation that is not live (none is freed twice), and
\* when every container was dropped or extracted, a decomposed MiniPtr being
\* recomposed and dropped first, no heap allocation is live any more.
C14_NoDoubleFreeNoLeak ==
    /\ fault = "none"
    /\ \A k, n \in 1..Len(events) :
        (k < n /\ events[k].ev = "dealloc" /\ events[n].ev = "dealloc") =>
            events[k].addr # events[n].addr
    /\ (\A i \in Boxes : bx[i].st \in {"none", "gone", "value"}) =>
        \A a \in HeapAddrs : ~heap[a].live

\* every container of a Boxed type is gone, one by drop after into_ptr and
\* from_ptr or directly, one by into_inner: nothing is live
C14_Witness ==
    /\ SIZE_CLASS = Boxed
    /\ last.op = "drop"
    /\ \E i, j \in Boxes : bx[i].st = "gone" /\ bx[j].st = "value"
    /\ \A i \in Boxes : bx[i].st \in {"gone", "value"}
    /\ \A a \in HeapAddrs : ~heap[a].live

\* the operations that reserve the storage of a container with with_alloc
Reserving == {"new", "with", "clone", "zeroed", "new_uninit"}

\* C15: when the allocator returns null to a reservation of a Boxed type
\* (new_uninit or new_zeroed, in new, with, clone and zeroed), the operation
\* ends in handle_alloc_error after that one call of the allocator: the
\* process is aborted, the caller gets no container, and no container or
\* MiniPtr of a Boxed type ever holds a null pointer or the address of no
\* allocation. A reservation for a Zero or Inline type never fails.
C15_AllocFailureIsFatal ==
    /\ halted <=> last.outcome = "abort"
    /\ (last.outcome = "abort" /\ last.op \in Reserving) =>
        /\ SIZE_CLASS = Boxed
        /\ bx[last.box].st = "none"
        /\ events = << [ev |-> "alloc", addr |-> 0, size |-> T.size,
                        align |-> T.align, zeroed |-> last.op = "zeroed"],
                       [ev |-> "handle_alloc_error"] >>
    /\ SIZE_CLASS = Boxed =>
        \A i \in Boxes :
            Slotted(bx[i]) =>
                /\ bx[i].ptr # NullWord
                /\ WordToAddr(bx[i].ptr) \in HeapAddrs
                /\ heap[WordToAddr(bx[i].ptr)].live
    /\ (SIZE_CLASS \in {Zero, Inline} /\ last.op \in Reserving) =>
        /\ last.outcome # "abort"
        /\ AllocatorCalls = <<>>

\* the allocator returned null to the reservation of a clone while the
\* container that was to be cloned is alive: the process is aborted
C15_Witness ==
    /\ SIZE_CLASS = Boxed
    /\ last.op = "clone" /\ last.outcome = "abort"
    /\ halted
    /\ bx[last.box].st = "none"
    /\ \E j \in Boxes : bx[j].st = "box" /\ heap[WordToAddr(bx[j].ptr)].live

\* where in the events of the last operation the function fn was called
CallsOf(fn) == { k \in 1..Len(events) : events[k] = Call(fn) }

\* C18: MiniBox::with(producer) reserves the storage before it calls the
\* producer. For a Boxed type the one allocate call is the first event and the
\* call of the producer the second, and the producer is called once; it is
\* not called at all when the allocator returned null, as the process is
\* aborted before. For Zero and Inline the producer is called once and the
\* allocator not at all.
C18_ReserveThenProduce ==
    last.op = "with" =>
        /\ \A k \in 1..Len(events) :
            events[k].ev = "alloc" => \A n \in CallsOf("producer") : k < n
        /\ Cardinality({ k \in 1..Len(events) : events[k].ev = "alloc" }) =
               IF SIZE_CLASS = Boxed THEN 1 ELSE 0
        /\ Cardinality(CallsOf("producer")) = IF last.outcome = "abort" THEN 0 ELSE 1
        /\ (SIZE_CLASS = Boxed /\ last.outcome # "abort") =>
            /\ events[1].ev = "alloc" /\ events[1].addr \in HeapAddrs
            /\ events[2] = Call("producer")
        /\ SIZE_CLASS \in {Zero, Inline} =>
            /\ last.outcome # "abort"
            /\ events[1] = Call("producer")
            /\ AllocatorCalls = <<>>
        /\ last.outcome = "ok" =>
            /\ Len(events) = IF SIZE_CLASS = Boxed THEN 2 ELSE 1
            /\ bx[last.box].st = "box"
            /\ Load(bx, heap, deref(bx[last.box])) = last.val

\* with built a Boxed container of the second value: allocate, then the producer
C18_Witness ==
    /\ SIZE_CLASS = Boxed
    /\ last.op = "with" /\ last.outcome = "ok"
    /\ last.val.fill = 2
    /\ events[1].ev = "alloc"
    /\ events[2] = Call("producer")

\* C20: a staging container MiniBox<MaybeUninit<T>> that is dropped without
\* having been written (the producer of with panicked, T::clone in clone
\* panicked, or the caller dropped what new_uninit returned) runs no
\* destructor of T; for a Boxed T the allocation reserved for it is freed,
\* once, with the layout it was reserved with, for Zero and Inline the
\* allocator is not called. The class of the staging container is the class
\* of the container of T.
C20_UnwrittenStagingDrop ==
    /\ SIZE_CLASS_UNINIT = SIZE_CLASS
    /\ ((last.op \in {"with", "clone"} /\ last.outcome = "panic")
            \/ (last.op = "new_uninit" /\ last.outcome = "ok")) =>
        /\ DestructorRuns = <<>>
        /\ bx[last.box].st = "gone"
        /\ fault = "none"
        /\ T.elems > 0 =>
            \A k \in 0..MaxFill :
                counter[k] = T.elems * (made[k] - Cardinality(Owners(k)))
        /\ SIZE_CLASS \in {Zero, Inline} => AllocatorCalls = <<>>
        /\ SIZE_CLASS = Boxed =>
            /\ Len(AllocatorCalls) = 2
            /\ AllocatorCalls[1].ev = "alloc"
            /\ AllocatorCalls[1].addr \in HeapAddrs
            /\ AllocatorCalls[2] =
                 [ev |-> "dealloc", addr |-> AllocatorCalls[1].addr,
                  size |-> AllocatorCalls[1].size, align |-> AllocatorCalls[1].align]
            /\ ~heap[AllocatorCalls[1].addr].live

\* T::clone of the array of 16 drop counters panicked: the staging container
\* was dropped, its allocation freed, and no counter moved
C20_Witness ==
    /\ T.elems = 16
    /\ last.op = "clone" /\ last.outcome = "panic"
    /\ Len(AllocatorCalls) = 2
    /\ \A k \in 0..MaxFill : counter[k] = 0
    /\ \E j \in Boxes : bx[j].st = "box"

\* C19: the drop of a container of a Boxed type first runs the destructor of
\* the value at the heap address the slot holds and then frees that
\* allocation, with the size and alignment it was allocated with, which are
\* T's; nothing is read from the allocation once it is freed.
C19_DropValueThenFree ==
    [][SIZE_CLASS = Boxed =>
        \A i \in Boxes :
            (bx[i].st = "box" /\ bx'[i].st = "gone") =>
                LET a == WordToAddr(bx[i].ptr)
                    v == Load(bx, heap, a)
                    run == IF T.elems > 0 THEN << DropOf(CounterOf(v)) >> ELSE <<>>
                IN  /\ a \in HeapAddrs /\ heap[a].live
                    /\ v = bx[i].orig
                    /\ events' = run \o << [ev |-> "dealloc", addr |-> a,
                                             size |-> heap[a].size,
                                             align |-> heap[a].align] >>
                    /\ heap[a].size = T.size /\ heap[a].align = T.align
                    /\ ~heap'[a].live
                    /\ fault' = "none"
    ]_vars

\* a container of the array of 16 drop counters was dropped: 16 destructor
\* runs, then the deallocate call
C19_Witness ==
    /\ T.elems = 16
    /\ last.op = "drop"
    /\ Len(events) = 2
    /\ events[1].ev = "drop" /\ events[1].n = 16
    /\ events[2].ev = "dealloc"
    /\ ~heap[events[2].addr].live

\* C17: as_ref through a decomposed MiniPtr, or through a copy of it, reads the
\* value that was stored in the container, as often as it is done, and changes
\* nothing: no allocator call, no destructor run, the slot word, the heap
\* and the drop counters are as before. The drop of the container from_ptr
\* makes of the MiniPtr later runs the destructor of the value once.
C17_AsRefReadsOnly ==
    [][\A i \in Boxes :
        /\ (last'.op = "as_ref" /\ last'.box = i) =>
            /\ bx[i].st = "ptr"
            /\ bx' = bx /\ heap' = heap /\ counter' = counter /\ fault' = fault
            /\ events' = <<>>
            /\ last'.val = bx[i].orig
            /\ SIZE_CLASS = Zero => last'.addr = dangling
            /\ SIZE_CLASS = Inline => last'.addr \in { SlotAddr(l) : l \in Locs(i) }
            /\ SIZE_CLASS = Boxed => last'.addr = WordToAddr(bx[i].ptr)
        /\ (bx[i].st = "ptr" /\ bx'[i].st = "box") => events' = <<>>
        /\ (bx[i].st = "box" /\ bx'[i].st = "gone" /\ T.elems > 0) =>
            /\ SelectSeq(events', IsDestructorRun) = << DropOf(CounterOf(bx[i].orig)) >>
            /\ counter' = [counter EXCEPT ![CounterOf(bx[i].orig)] = @ + T.elems]
    ]_vars

\* the value of an Inline type with a destructor was read through a copy of
\* the MiniPtr, in another slot than the MiniPtr: no counter has moved
C17_Witness ==
    /\ SIZE_CLASS = Inline /\ T.elems > 0
    /\ last.op = "as_ref"
    /\ bx[last.box].st = "ptr"
    /\ last.addr # SlotAddr(bx[last.box].loc)
    /\ last.val = bx[last.box].orig
    /\ \A k \in 0..MaxFill : counter[k] = 0

\* C16: for a type of class Inline or Boxed, to_raw(from_raw(w)) is w for
\* every word w; for a type of class Zero, to_raw is the alignment of T
\* whatever the word, which is the address of the dangling anchor, is not
\* zero and is a multiple of T's alignment.
C16_RawRoundTrip ==
    cls # NoCls =>
        /\ SIZE_CLASS \in {Inline, Boxed} => cls.raw = arg.word
        /\ SIZE_CLASS = Zero =>
            /\ cls.raw = T.align
            /\ cls.raw = dangling
            /\ cls.raw # 0
            /\ cls.raw % T.align = 0

\* to_raw for the over-aligned zero-sized type, given a word of three bytes
\* that is not its alignment
C16_Witness ==
    /\ cls # NoCls
    /\ SIZE_CLASS = Zero /\ T.align = 64
    /\ arg.word = Pow2(16)
    /\ cls.raw = 64

\* C21: the clone of a container is an owner of its own. It holds a value
\* equal to the one T::clone made of the original's, which the original still
\* holds; for a Boxed type it has a heap cell allocated by the clone, at
\* another address than the original's, and no two containers or MiniPtrs
\* ever share an address, so that the drops of the original and of the clone,
\* in either order, free two allocations once each (no free ever hits a cell
\* that is not live, no cell is live when all owners are gone) and run the
\* destructor once per value. clone_from calls the allocator not at all and
\* leaves the address of the target's value as it was.
C21_CloneIsIndependent ==
    /\ (last.op = "clone" /\ last.outcome = "ok") =>
        LET b == bx[last.box]
        IN  /\ b.st = "box"
            /\ Load(bx, heap, deref(b)) = last.val
            /\ \E j \in Boxes \ {last.box} :
                /\ bx[j].st = "box"
                /\ deref(bx[j]) = last.addr
                /\ Load(bx, heap, deref(bx[j])) = last.val
            /\ DestructorRuns = <<>>
            /\ SIZE_CLASS = Boxed =>
                /\ events = << [ev |-> "alloc", addr |-> deref(b), size |-> T.size,
                                align |-> T.align, zeroed |-> FALSE],
                               Call("clone") >>
                /\ deref(b) # last.addr
                /\ heap[deref(b)].live /\ heap[last.addr].live
            /\ SIZE_CLASS \in {Zero, Inline} => AllocatorCalls = <<>>
    /\ SIZE_CLASS = Boxed =>
        \A i, j \in Boxes :
            (i # j /\ bx[i].st \in {"box", "ptr"} /\ bx[j].st \in {"box", "ptr"}) =>
                WordToAddr(bx[i].ptr) # WordToAddr(bx[j].ptr)
    /\ fault = "none"
    /\ T.elems > 0 =>
        \A k \in 0..MaxFill : counter[k] = T.elems * (made[k] - Cardinality(Owners(k)))
    /\ (\A i \in Boxes : bx[i].st \in {"gone", "value"}) =>
        \A a \in HeapAddrs : ~heap[a].live
    /\ last.op = "clone_from" =>
        LET b == bx[last.box]
        IN  /\ b.st = "box"
            /\ AllocatorCalls = <<>>
            /\ deref(b) = last.addr
            /\ SIZE_CLASS = Boxed => heap[last.addr].live
            /\ last.outcome = "ok" => Load(bx, heap, deref(b)) = last.val
            /\ last.outcome = "panic" => DestructorRuns = <<>>

\* a Boxed container of the array of 16 drop counters was cloned: two cells
\* are live, two values of one counter exist, none was dropped
C21_Witness ==
    /\ T.elems = 16
    /\ last.op = "clone" /\ last.outcome = "ok"
    /\ Cardinality({ a \in HeapAddrs : heap[a].live }) = 2
    /\ \E k \in 1..MaxFill : made[k] = 2 /\ counter[k] = 0
    /\ deref(bx[last.box]) # last.addr

====
